---- MODULE Spec2Model ----
(***************************************************************************)
(* The reminder scheduler of neo (src/neo/ext/customisation.py): the       *)
(* Reminder class (one asyncio task per pending reminder), the commands    *)
(* `remind` and `remind remove`, the start-up routine                      *)
(* _create_first_reminders and cog_unload, against the `reminders` table.  *)
(* One action is one uninterrupted run of a coroutine between two awaits,  *)
(* or one statement executed by the database.                              *)
(***************************************************************************)
EXTENDS Integers, Sequences, FiniteSets, Bags, TLC

\* ------------------------------------------------------------------ bounds
MaxReminders == 2      \* `remind` invocations in one behaviour
MaxClock == 1          \* clock instants 0..MaxClock
MaxEvents == 1         \* `remind remove` invocations, unloads and crashes in one behaviour
MaxItems == 1          \* ids given to one `remind remove`

Users == {1, 2}
Rems == 1..MaxReminders
NoRem == [id |-> -1, owner |-> 0, deadline |-> 0]

VARIABLES
    now,        \* index of the current clock instant
    loaded,     \* the cog is loaded: its commands are accepted
    events,     \* `remind remove` invocations, unloads and crashes so far
    rem,        \* rem[r]: arguments of the r-th `remind` invocation
    nRem,       \* number of `remind` invocations so far
    store,      \* rows of the reminders table (indices into rem)
    tasks,      \* the unfinished REMINDER-<id> tasks of the event loop (a bag)
    cr,         \* the running `remind` command, if any
    cn,         \* the running `remind remove` command, if any
    recs,       \* the running _create_first_reminders tasks
    attempts,   \* attempts[r]: calls of target.send made for reminder r (2: two or more)
    failed,     \* `remind` invocations that ended with the INSERT's error
    cancelled,  \* reminders whose owner removed them while their timer was pending
    interrupted, \* reminders whose `remind` invocation was cut short by a crash
    returned,   \* what the `remind remove` invocations that are over returned
    world,      \* what the bot's caches hold and whether the channel takes messages
    stale       \* the `remind` invocations of unloaded cogs that still run

vars == <<now, loaded, events, rem, nRem, store, tasks, cr, cn, recs, attempts, failed, cancelled, interrupted, returned, world, stale>>

\* ------------------------------------------------------- pure functions
Digit(d) == CASE d = 0 -> "0" [] d = 1 -> "1" [] d = 2 -> "2" [] d = 3 -> "3"
              [] d = 4 -> "4" [] d = 5 -> "5" [] d = 6 -> "6" [] d = 7 -> "7"
              [] d = 8 -> "8" [] d = 9 -> "9"

DigitValue(c) == CHOOSE d \in 0..9 : Digit(d) = c

\* str(n) for n >= 0, as a sequence of characters
RECURSIVE Str(_)
Str(n) == IF n < 10 THEN <<Digit(n)>> ELSE Str(n \div 10) \o <<Digit(n % 10)>>

\* int(s) for a sequence of decimal digits (leading zeros are dropped)
RECURSIVE ParseInt(_)
ParseInt(s) == IF Len(s) = 0 THEN 0
          ELSE 10 * ParseInt(SubSeq(s, 1, Len(s) - 1)) + DigitValue(s[Len(s)])

\* time() at clock instant k, in whole seconds
time(k) == 1700000005 + 10 * k

\* reminder_id = int(str(int(time()))[4:])
ReminderId(t) == ParseInt(SubSeq(Str(t), 5, Len(Str(t))))

\* f"REMINDER-{rm_id}"
TaskName(id) == <<"R", "E", "M", "I", "N", "D", "E", "R", "-">> \o Str(id)

\* s.endswith(suffix)
EndsWith(s, suffix) ==
    /\ Len(suffix) <= Len(s)
    /\ SubSeq(s, Len(s) - Len(suffix) + 1, Len(s)) = suffix

\* task.get_name().endswith(str(reminder_id))
NameMatches(rmId, reminderId) == EndsWith(TaskName(rmId), Str(reminderId))

\* the rows that DELETE FROM reminders WHERE id=$1 and user_id=$2 removes
DeleteMatches(id, userId) == {r \in store : rem[r].id = id /\ rem[r].owner = userId}

\* ----------------------------------------------------------------- state
\* A task of Reminder.__init__: the reminder it serves, where it is suspended,
\* whether the running `remind remove` collected it, whether its deadline
\* had passed when it called sleep_until (the delay is then max(delta, 0) = 0),
\* and whether its `user` is a user (ctx.author) or None.
NewTask(r) ==
    [rem |-> r, pc |-> "sleeping", seen |-> FALSE, late |-> rem[r].deadline < now,
     user |-> TRUE]

\* The task of a Reminder made from a row: user=self.bot.get_user(user_id) is
\* None when the owner is not in the cache.
Recovered(r) == [NewTask(r) EXCEPT !.user = rem[r].owner \in world.cached]

One(x) == SetToBag({x})
Count(x) == CopiesIn(x, tasks)
TaskSet == BagToSet(tasks)

\* the tasks of the bag b that are in the set S
Only(b, S) == [x \in BagToSet(b) \cap S |-> b[x]]

\* the bag b with `seen` set to v on every task
Marked(b, v) ==
    LET img == {[x EXCEPT !.seen = v] : x \in BagToSet(b)}
    IN  [y \in img |-> CopiesIn([y EXCEPT !.seen = TRUE], b)
                         + CopiesIn([y EXCEPT !.seen = FALSE], b)]

\* number of unfinished tasks that serve reminder r
LiveCount(r) == BagCardinality(Only(tasks, {x \in TaskSet : x.rem = r}))

\* number of unfinished tasks named REMINDER-<id>
LiveCountId(id) == BagCardinality(Only(tasks, {x \in TaskSet : rem[x.rem].id = id}))

\* The bot's caches and the channel of the reminders' messages: the users
\* bot.get_user finds, the users whose user_cache entry has dm_reminders set,
\* and the channel: "open" (get_channel finds it and it takes messages),
\* "closed" (found, but sending to it raises) or "gone" (get_channel gives None).
Worlds == [cached : SUBSET Users, dm : SUBSET Users, channel : {"open", "closed", "gone"}]

\* every user is cached, nobody asked for direct messages, the channel is open
Plain == [cached |-> Users, dm |-> {}, channel |-> "open"]

\* target of _do_remind: get_channel(...) or self.user, and self.user when
\* dm_reminders is set
Target(r) ==
    IF rem[r].owner \in world.dm THEN "user"
    ELSE IF world.channel = "gone" THEN "user" ELSE "channel"

IdleCr == [pc |-> "idle", r |-> 0]
IdleCn == [pc |-> "idle", owner |-> 0, args |-> <<>>, items |-> <<>>, hit |-> {}, done |-> 0]

\* Users are told apart by equality alone, so they are numbered in the order
\* in which they turn up: a command comes from a user already present in the
\* state or from the first one who is not.
Present ==
    {rem[r].owner : r \in 1..nRem} \cup (IF cn.pc = "idle" THEN {} ELSE {cn.owner})
        \cup {returned[i].owner : i \in DOMAIN returned}
Callers == {u \in Users : \A v \in Users : v < u => v \in Present}

\* the ids a user may type: every id `remind` can assign, and one it never does
CancelIds == {ReminderId(time(k)) : k \in 0..MaxClock} \cup {999}

\* the lists of ids a user may give (commands.Greedy[int])
ItemLists == UNION {[1..n -> CancelIds] : n \in 0..MaxItems}

Init ==
    /\ now = 0
    /\ loaded = TRUE
    /\ events = 0
    /\ rem = [r \in Rems |-> NoRem]
    /\ nRem = 0
    /\ store = {}
    /\ tasks = EmptyBag
    /\ cr = IdleCr
    /\ cn = IdleCn
    /\ recs = <<[pc |-> "fetching", snap |-> {}]>>
    /\ attempts = [r \in Rems |-> 0]
    /\ failed = {}
    /\ cancelled = {}
    /\ interrupted = {}
    /\ returned = <<>>
    /\ world = Plain
    /\ stale = <<>>

\* ------------------------------------------------------------ the clock
Tick ==
    /\ now < MaxClock
    /\ now' = now + 1
    /\ UNCHANGED <<loaded, events, rem, nRem, store, tasks, cr, cn, recs, attempts, failed, cancelled, interrupted, returned, world, stale>>

\* ------------------------------------------------- Customisation._remind
RemoveAt(s, k) == SubSeq(s, 1, k - 1) \o SubSeq(s, k + 1, Len(s))

\* Remind with Reminder(...) constructed before the INSERT is sent
RemindArmsFirst(owner, deadline) ==
    /\ loaded
    /\ cr.pc = "idle"
    /\ nRem < MaxReminders
    /\ nRem' = nRem + 1
    /\ rem' = [rem EXCEPT ![nRem + 1] =
                  [id |-> ReminderId(time(now)), owner |-> owner, deadline |-> deadline]]
    /\ tasks' = tasks (+) One([NewTask(nRem + 1) EXCEPT !.late = deadline < now])
    /\ cr' = [pc |-> "inserting", r |-> nRem + 1]
    /\ UNCHANGED <<now, loaded, events, store, cn, recs, attempts, failed, cancelled, interrupted, returned, world, stale>>

\* The command up to its first await: the id is read off the clock and the
\* INSERT is sent. max_concurrency(1) admits one invocation at a time.
Remind(owner, deadline) ==
    /\ loaded
    /\ cr.pc = "idle"
    /\ nRem < MaxReminders
    /\ nRem' = nRem + 1
    /\ rem' = [rem EXCEPT ![nRem + 1] =
                  [id |-> ReminderId(time(now)), owner |-> owner, deadline |-> deadline]]
    /\ cr' = [pc |-> "inserting", r |-> nRem + 1]
    /\ UNCHANGED <<now, loaded, events, store, tasks, cn, recs, attempts, failed, cancelled, interrupted, returned, world, stale>>

\* The database executes the INSERT.
RemindInsert ==
    /\ cr.pc = "inserting"
    /\ store' = store \cup {cr.r}
    /\ cr' = [cr EXCEPT !.pc = "inserted"]
    /\ UNCHANGED <<now, loaded, events, rem, nRem, tasks, cn, recs, attempts, failed, cancelled, interrupted, returned, world, stale>>

\* RemindInsertFail with the INSERT's exception suppressed: the command goes on
RemindInsertFailSuppressed ==
    /\ cr.pc = "inserting"
    /\ failed' = failed \cup {cr.r}
    /\ cr' = [cr EXCEPT !.pc = "inserted"]
    /\ UNCHANGED <<now, loaded, events, rem, nRem, store, tasks, cn, recs, attempts, cancelled, interrupted, returned, world, stale>>

\* The INSERT raises: the exception leaves the command.
RemindInsertFail ==
    /\ cr.pc = "inserting"
    /\ failed' = failed \cup {cr.r}
    /\ cr' = IdleCr
    /\ UNCHANGED <<now, loaded, events, rem, nRem, store, tasks, cn, recs, attempts, cancelled, interrupted, returned, world, stale>>

\* The command resumes after the INSERT: Reminder(...) creates the task, then
\* the confirmation is sent.
RemindArm ==
    /\ cr.pc = "inserted"
    /\ tasks' = tasks (+) One(NewTask(cr.r))
    /\ cr' = [cr EXCEPT !.pc = "replying"]
    /\ UNCHANGED <<now, loaded, events, rem, nRem, store, cn, recs, attempts, failed, cancelled, interrupted, returned, world, stale>>

\* ctx.send returns (or raises): the command is over.
RemindReply ==
    /\ cr.pc = "replying"
    /\ cr' = IdleCr
    /\ UNCHANGED <<now, loaded, events, rem, nRem, store, tasks, cn, recs, attempts, failed, cancelled, interrupted, returned, world, stale>>

\* The same four steps of an invocation that a cog unloaded since admitted:
\* nothing stops the coroutine when its cog is unloaded.
StaleRemindInsert(k) ==
    /\ k \in DOMAIN stale
    /\ stale[k].pc = "inserting"
    /\ store' = store \cup {stale[k].r}
    /\ stale' = [stale EXCEPT ![k].pc = "inserted"]
    /\ UNCHANGED <<now, loaded, events, rem, nRem, tasks, cr, cn, recs, attempts, failed, cancelled, interrupted, returned, world>>

StaleRemindInsertFail(k) ==
    /\ k \in DOMAIN stale
    /\ stale[k].pc = "inserting"
    /\ failed' = failed \cup {stale[k].r}
    /\ stale' = RemoveAt(stale, k)
    /\ UNCHANGED <<now, loaded, events, rem, nRem, store, tasks, cr, cn, recs, attempts, cancelled, interrupted, returned, world>>

StaleRemindArm(k) ==
    /\ k \in DOMAIN stale
    /\ stale[k].pc = "inserted"
    /\ tasks' = tasks (+) One(NewTask(stale[k].r))
    /\ stale' = [stale EXCEPT ![k].pc = "replying"]
    /\ UNCHANGED <<now, loaded, events, rem, nRem, store, cr, cn, recs, attempts, failed, cancelled, interrupted, returned, world>>

StaleRemindReply(k) ==
    /\ k \in DOMAIN stale
    /\ stale[k].pc = "replying"
    /\ stale' = RemoveAt(stale, k)
    /\ UNCHANGED <<now, loaded, events, rem, nRem, store, tasks, cr, cn, recs, attempts, failed, cancelled, interrupted, returned, world>>

\* ------------------------------------- Reminder._do_wait / _do_remind
\* sleep_until(deadline) returns and _do_remind reads self.user.id of a task
\* whose user is None: the AttributeError ends the task before any send.
DoRemindResolveFail(x) ==
    /\ x \in TaskSet
    /\ x.pc = "sleeping"
    /\ now >= rem[x.rem].deadline
    /\ ~x.user
    /\ tasks' = tasks (-) One(x)
    /\ UNCHANGED <<now, loaded, events, rem, nRem, store, cr, cn, recs, attempts, failed, cancelled, interrupted, returned, world, stale>>

\* DoWait with a sleep that may return before the deadline
DoWaitEarly(x) ==
    /\ x \in TaskSet
    /\ x.pc = "sleeping"
    /\ x.user
    /\ attempts' = [attempts EXCEPT ![x.rem] = IF @ < 2 THEN @ + 1 ELSE @]
    /\ tasks' = (tasks (-) One(x)) (+) One([x EXCEPT !.pc = "sending"])
    /\ UNCHANGED <<now, loaded, events, rem, nRem, store, cr, cn, recs, failed, cancelled, interrupted, returned, world, stale>>

\* sleep_until(deadline) returns; _do_remind runs up to target.send.
DoWait(x) ==
    /\ x \in TaskSet
    /\ x.pc = "sleeping"
    /\ now >= rem[x.rem].deadline
    /\ x.user
    /\ tasks' = (tasks (-) One(x)) (+) One([x EXCEPT !.pc = "sending"])
    /\ attempts' = [attempts EXCEPT ![x.rem] = IF @ < 2 THEN @ + 1 ELSE @]
    /\ UNCHANGED <<now, loaded, events, rem, nRem, store, cr, cn, recs, failed, cancelled, interrupted, returned, world, stale>>

\* target.send returns: the DELETE is sent. Sending to a closed channel
\* raises instead.
DoRemindSent(x) ==
    /\ x \in TaskSet
    /\ x.pc = "sending"
    /\ ~(Target(x.rem) = "channel" /\ world.channel = "closed")
    /\ tasks' = (tasks (-) One(x)) (+) One([x EXCEPT !.pc = "deleting"])
    /\ UNCHANGED <<now, loaded, events, rem, nRem, store, cr, cn, recs, attempts, failed, cancelled, interrupted, returned, world, stale>>

\* DoRemindSendFail with an exception that ends every REMINDER task
DoRemindSendFailEndsAll(x) ==
    /\ x \in TaskSet
    /\ x.pc = "sending"
    /\ tasks' = EmptyBag
    /\ UNCHANGED <<now, loaded, events, rem, nRem, store, cr, cn, recs, attempts, failed, cancelled, interrupted, returned, world, stale>>

\* target.send raises: the exception ends the task.
DoRemindSendFail(x) ==
    /\ x \in TaskSet
    /\ x.pc = "sending"
    /\ tasks' = tasks (-) One(x)
    /\ UNCHANGED <<now, loaded, events, rem, nRem, store, cr, cn, recs, attempts, failed, cancelled, interrupted, returned, world, stale>>

\* The database executes the task's DELETE and the task returns.
DoRemindDelete(x) ==
    /\ x \in TaskSet
    /\ x.pc = "deleting"
    /\ store' = store \ DeleteMatches(rem[x.rem].id, rem[x.rem].owner)
    /\ tasks' = tasks (-) One(x)
    /\ UNCHANGED <<now, loaded, events, rem, nRem, cr, cn, recs, attempts, failed, cancelled, interrupted, returned, world, stale>>

\* The task's DELETE raises: the exception ends the task.
DoRemindDeleteFail(x) ==
    /\ x \in TaskSet
    /\ x.pc = "deleting"
    /\ tasks' = tasks (-) One(x)
    /\ UNCHANGED <<now, loaded, events, rem, nRem, store, cr, cn, recs, attempts, failed, cancelled, interrupted, returned, world, stale>>

\* ------------------------------------------ Customisation._remind_remove
\* Cancels with a cancel() that does nothing to a task that has left its sleep
CancelsSleepingOnly(x, reminderId) ==
    x.seen /\ x.pc = "sleeping" /\ NameMatches(rem[x.rem].id, reminderId)

\* the tasks the loop body cancels: those of `running` whose name ends with
\* the id
Cancels(x, reminderId) == x.seen /\ NameMatches(rem[x.rem].id, reminderId)

\* the reminders of `owner` with id `item` that have never fired and whose
\* collected timer still sleeps before its deadline
PendingOf(owner, item) ==
    {r \in 1..nRem :
        /\ rem[r].id = item /\ rem[r].owner = owner
        /\ attempts[r] = 0 /\ now < rem[r].deadline
        /\ \E x \in TaskSet : x.rem = r /\ x.seen /\ x.pc = "sleeping"}

\* The command up to its first await (the reaction of ctx.loading): the
\* running REMINDER tasks are collected. cn.args are the ids given, cn.items
\* those the loop has still to go through.
RemindRemove(owner, items) ==
    /\ loaded
    /\ cn.pc = "idle"
    /\ events < MaxEvents
    /\ events' = events + 1
    /\ cn' = [pc |-> "reacting", owner |-> owner, args |-> items, items |-> items,
              hit |-> {}, done |-> 0]
    /\ tasks' = Marked(tasks, TRUE)
    /\ UNCHANGED <<now, loaded, rem, nRem, store, cr, recs, attempts, failed, cancelled, interrupted, returned, world, stale>>

\* The value of a call of a function that has no return statement.
None == -1

\* What a `remind remove` that is over returned, next to its caller and its
\* ids, to the number of reminders it removed for their owner while their
\* timer was pending, and to whether ctx.loading handed an error of it to the
\* error handler.
Returns(n, err) ==
    Append(returned, [owner |-> cn.owner, args |-> cn.args, value |-> None,
                      cancelled |-> n, error |-> err])

\* The command resumes. With an id left, the loop body runs up to its await:
\* the matching tasks are cancelled and the DELETE is sent. With none (an
\* empty list), the command returns.
RemindRemoveCancel ==
    /\ cn.pc = "reacting"
    /\ IF cn.items = <<>>
       THEN /\ tasks' = Marked(tasks, FALSE)
            /\ cn' = IdleCn
            /\ returned' = Returns(cn.done, FALSE)
       ELSE /\ tasks' = Only(tasks, {x \in TaskSet : ~Cancels(x, Head(cn.items))})
            /\ cn' = [cn EXCEPT !.pc = "deleting",
                                !.hit = PendingOf(cn.owner, Head(cn.items))]
            /\ returned' = returned
    /\ UNCHANGED <<now, loaded, events, rem, nRem, store, cr, recs, attempts, failed, cancelled, interrupted, world, stale>>

\* RemindRemoveDelete with a DELETE that removes one matching row at most
RemindRemoveDeleteOneRow ==
    /\ cn.pc = "deleting"
    /\ store' = store \ {r \in DeleteMatches(Head(cn.items), cn.owner) :
                            \A q \in DeleteMatches(Head(cn.items), cn.owner) : r <= q}
    /\ cancelled' = cancelled \cup cn.hit
    /\ IF Tail(cn.items) = <<>>
       THEN /\ tasks' = Marked(tasks, FALSE)
            /\ cn' = IdleCn
            /\ returned' = Returns(cn.done + Cardinality(cn.hit), FALSE)
       ELSE /\ tasks' = tasks
            /\ cn' = [cn EXCEPT !.pc = "reacting", !.items = Tail(cn.items), !.hit = {},
                                !.done = @ + Cardinality(cn.hit)]
            /\ returned' = returned
    /\ UNCHANGED <<now, loaded, events, rem, nRem, cr, recs, attempts, failed, interrupted, world, stale>>

\* RemindRemoveDelete with a DELETE for the reminders only whose pending
\* timer the loop body cancelled
RemindRemoveDeleteOnlyCancelled ==
    /\ cn.pc = "deleting"
    /\ store' = store \ (DeleteMatches(Head(cn.items), cn.owner) \cap cn.hit)
    /\ cancelled' = cancelled \cup cn.hit
    /\ IF Tail(cn.items) = <<>>
       THEN /\ tasks' = Marked(tasks, FALSE)
            /\ cn' = IdleCn
            /\ returned' = Returns(cn.done + Cardinality(cn.hit), FALSE)
       ELSE /\ tasks' = tasks
            /\ cn' = [cn EXCEPT !.pc = "reacting", !.items = Tail(cn.items), !.hit = {},
                                !.done = @ + Cardinality(cn.hit)]
            /\ returned' = returned
    /\ UNCHANGED <<now, loaded, events, rem, nRem, cr, recs, attempts, failed, interrupted, world, stale>>

\* The database executes the command's DELETE; the loop goes on to the next
\* id, or the command returns.
RemindRemoveDelete ==
    /\ cn.pc = "deleting"
    /\ store' = store \ DeleteMatches(Head(cn.items), cn.owner)
    /\ cancelled' = cancelled \cup cn.hit
    /\ IF Tail(cn.items) = <<>>
       THEN /\ tasks' = Marked(tasks, FALSE)
            /\ cn' = IdleCn
            /\ returned' = Returns(cn.done + Cardinality(cn.hit), FALSE)
       ELSE /\ tasks' = tasks
            /\ cn' = [cn EXCEPT !.pc = "reacting", !.items = Tail(cn.items), !.hit = {},
                                !.done = @ + Cardinality(cn.hit)]
            /\ returned' = returned
    /\ UNCHANGED <<now, loaded, events, rem, nRem, cr, recs, attempts, failed, interrupted, world, stale>>

\* The command's DELETE raises: ctx.loading hands the error to the error
\* handler and the command is over.
RemindRemoveDeleteFail ==
    /\ cn.pc = "deleting"
    /\ cn' = IdleCn
    /\ tasks' = Marked(tasks, FALSE)
    /\ returned' = Returns(cn.done, TRUE)
    /\ UNCHANGED <<now, loaded, events, rem, nRem, store, cr, recs, attempts, failed, cancelled, interrupted, world, stale>>

\* --------------------------------- Customisation._create_first_reminders
\* wait_until_ready has returned and the database executes the SELECT.
CreateFirstRemindersFetch(k) ==
    /\ k \in DOMAIN recs
    /\ recs[k].pc = "fetching"
    /\ recs' = [recs EXCEPT ![k] = [pc |-> "fetched", snap |-> store]]
    /\ UNCHANGED <<now, loaded, events, rem, nRem, store, tasks, cr, cn, attempts, failed, cancelled, interrupted, returned, world, stale>>

\* CreateFirstRemindersArm with the rows whose deadline has passed left out
CreateFirstRemindersArmSkipsPast(k) ==
    /\ k \in DOMAIN recs
    /\ recs[k].pc = "fetched"
    /\ tasks' = tasks (+) SetToBag({Recovered(r) : r \in {q \in recs[k].snap :
                                        rem[q].deadline >= now}})
    /\ recs' = RemoveAt(recs, k)
    /\ UNCHANGED <<now, loaded, events, rem, nRem, store, cr, cn, attempts, failed, cancelled, interrupted, returned, world, stale>>

\* CreateFirstRemindersArm with the loop left after its first row
CreateFirstRemindersArmFirstOnly(k) ==
    /\ k \in DOMAIN recs
    /\ recs[k].pc = "fetched"
    /\ tasks' = tasks (+) SetToBag({Recovered(r) : r \in {q \in recs[k].snap :
                                        \A p \in recs[k].snap : q <= p}})
    /\ recs' = RemoveAt(recs, k)
    /\ UNCHANGED <<now, loaded, events, rem, nRem, store, cr, cn, attempts, failed, cancelled, interrupted, returned, world, stale>>

\* CreateFirstRemindersArm with a loop that ends at the first row whose owner
\* get_user does not find
CreateFirstRemindersArmStopsAtUnresolved(k) ==
    /\ k \in DOMAIN recs
    /\ recs[k].pc = "fetched"
    /\ tasks' = tasks (+) SetToBag({Recovered(r) : r \in {q \in recs[k].snap :
                    \A p \in recs[k].snap : p <= q => rem[p].owner \in world.cached}})
    /\ recs' = RemoveAt(recs, k)
    /\ UNCHANGED <<now, loaded, events, rem, nRem, store, cr, cn, attempts, failed, cancelled, interrupted, returned, world, stale>>

\* The routine resumes with the rows: one Reminder(...) per row, then it ends.
CreateFirstRemindersArm(k) ==
    /\ k \in DOMAIN recs
    /\ recs[k].pc = "fetched"
    /\ tasks' = tasks (+) SetToBag({Recovered(r) : r \in recs[k].snap})
    /\ recs' = RemoveAt(recs, k)
    /\ UNCHANGED <<now, loaded, events, rem, nRem, store, cr, cn, attempts, failed, cancelled, interrupted, returned, world, stale>>

\* ------------------------------------------------ the cog's life cycle
\* CogUnload with the rows of the cancelled timers deleted as well
CogUnloadDeletesRows ==
    /\ loaded
    /\ events < MaxEvents
    /\ events' = events + 1
    /\ loaded' = FALSE
    /\ tasks' = EmptyBag
    /\ store' = store \ {x.rem : x \in TaskSet}
    /\ UNCHANGED <<now, rem, nRem, cr, cn, recs, attempts, failed, cancelled, interrupted, returned, world, stale>>

\* Customisation.cog_unload: every REMINDER task is cancelled. Commands and
\* start-up routines already running keep running.
CogUnload ==
    /\ loaded
    /\ events < MaxEvents
    /\ events' = events + 1
    /\ loaded' = FALSE
    /\ tasks' = EmptyBag
    /\ UNCHANGED <<now, rem, nRem, store, cr, cn, recs, attempts, failed, cancelled, interrupted, returned, world, stale>>

\* The extension is loaded: Customisation.__init__ schedules the start-up
\* routine. The module's commands are new objects, so the max_concurrency of
\* `remind` counts from zero: an invocation the old command admitted and that
\* is not over is none of its own.
CogLoad ==
    /\ ~loaded
    /\ loaded' = TRUE
    /\ recs' = Append(recs, [pc |-> "fetching", snap |-> {}])
    /\ stale' = IF cr.pc = "idle" THEN stale ELSE Append(stale, cr)
    /\ cr' = IdleCr
    /\ UNCHANGED <<now, events, rem, nRem, store, tasks, cn, attempts, failed, cancelled, interrupted, returned, world>>

\* The process dies: every task and every running command is gone, the table
\* stays.
Crash ==
    /\ events < MaxEvents
    /\ events' = events + 1
    /\ loaded' = FALSE
    /\ tasks' = EmptyBag
    /\ cr' = IdleCr
    /\ cn' = IdleCn
    /\ recs' = <<>>
    /\ stale' = <<>>
    /\ interrupted' = interrupted \cup (IF cr.pc = "idle" THEN {} ELSE {cr.r})
                                   \cup {stale[k].r : k \in DOMAIN stale}
    /\ UNCHANGED <<now, rem, nRem, store, attempts, failed, cancelled, returned, world>>

Next ==
    \/ Tick
    \/ \E o \in Callers, d \in now..MaxClock : Remind(o, d)
    \/ RemindInsert
    \/ RemindInsertFail
    \/ RemindArm
    \/ RemindReply
    \/ \E k \in DOMAIN stale : StaleRemindInsert(k)
    \/ \E k \in DOMAIN stale : StaleRemindInsertFail(k)
    \/ \E k \in DOMAIN stale : StaleRemindArm(k)
    \/ \E k \in DOMAIN stale : StaleRemindReply(k)
    \/ \E x \in TaskSet : DoWait(x)
    \/ \E x \in TaskSet : DoRemindSent(x)
    \/ \E x \in TaskSet : DoRemindSendFail(x)
    \/ \E x \in TaskSet : DoRemindDelete(x)
    \/ \E x \in TaskSet : DoRemindDeleteFail(x)
    \/ \E o \in Callers, l \in ItemLists : RemindRemove(o, l)
    \/ RemindRemoveCancel
    \/ RemindRemoveDelete
    \/ RemindRemoveDeleteFail
    \/ \E k \in DOMAIN recs : CreateFirstRemindersFetch(k)
    \/ \E k \in DOMAIN recs : CreateFirstRemindersArm(k)
    \/ CogUnload
    \/ CogLoad
    \/ Crash

Spec == Init /\ [][Next]_vars

\* The same program with collaborators that never fail, and with every step
\* that is not a user's or an operator's decision taken eventually: the event
\* loop runs every ready coroutine, the database answers, the clock reaches
\* every deadline, and a stopped cog is loaded again.
Internal ==
    \/ Tick
    \/ RemindInsert
    \/ RemindArm
    \/ RemindReply
    \/ \E k \in DOMAIN stale : StaleRemindInsert(k)
    \/ \E k \in DOMAIN stale : StaleRemindArm(k)
    \/ \E k \in DOMAIN stale : StaleRemindReply(k)
    \/ \E x \in TaskSet : DoWait(x)
    \/ \E x \in TaskSet : DoRemindSent(x)
    \/ \E x \in TaskSet : DoRemindDelete(x)
    \/ RemindRemoveCancel
    \/ RemindRemoveDelete
    \/ \E k \in DOMAIN recs : CreateFirstRemindersFetch(k)
    \/ \E k \in DOMAIN recs : CreateFirstRemindersArm(k)
    \/ CogLoad

FairNext ==
    \/ Internal
    \/ \E o \in Callers, d \in now..MaxClock : Remind(o, d)
    \/ \E o \in Callers, l \in ItemLists : RemindRemove(o, l)
    \/ CogUnload
    \/ Crash

FairSpec == Init /\ [][FairNext]_vars /\ WF_vars(Internal)

\* `remind remove` on its own: MaxCancels invocations, one after the other,
\* in a process where nothing else runs. Every reminder has either its row and
\* its sleeping timer, or has been sent and has neither. Ids follow the clock
\* and users are numbered in their order of appearance.
MaxCancels == 2

AssignedIds == {ReminderId(time(k)) : k \in 0..MaxClock}

InitCancel ==
    /\ now = MaxClock
    /\ loaded = TRUE
    /\ events = MaxEvents - MaxCancels
    /\ nRem = MaxReminders
    /\ rem \in [Rems -> [id : AssignedIds, owner : Users, deadline : {MaxClock}]]
    /\ \A r, q \in Rems : r < q => rem[r].id <= rem[q].id
    /\ \A r \in Rems : \A v \in Users :
            v < rem[r].owner => \E q \in 1..(r - 1) : rem[q].owner = v
    /\ store \in SUBSET Rems
    /\ tasks = SetToBag({NewTask(r) : r \in store})
    /\ attempts = [r \in Rems |-> IF r \in store THEN 0 ELSE 1]
    /\ cr = IdleCr
    /\ cn = IdleCn
    /\ recs = <<>>
    /\ failed = {}
    /\ cancelled = {}
    /\ interrupted = {}
    /\ returned = <<>>
    /\ world = Plain
    /\ stale = <<>>

NextCancel ==
    \/ \E o \in Callers, l \in ItemLists : RemindRemove(o, l)
    \/ RemindRemoveCancel
    \/ RemindRemoveDelete

CancelSpec == InitCancel /\ [][NextCancel]_vars

\* The fire path on its own: a process that has just started on a table of
\* rows, with any caches and any channel. The start-up routine arms the rows,
\* the clock runs and every timer goes through _do_remind, where each step
\* may raise.
InitFire ==
    /\ now = 0
    /\ loaded = TRUE
    /\ events = MaxEvents
    /\ nRem = MaxReminders
    /\ rem \in [Rems -> [id : AssignedIds, owner : Users, deadline : 0..MaxClock]]
    /\ \A r, q \in Rems : r < q => rem[r].id <= rem[q].id
    /\ \A r \in Rems : \A v \in Users :
            v < rem[r].owner => \E q \in 1..(r - 1) : rem[q].owner = v
    /\ store \in SUBSET Rems
    /\ tasks = EmptyBag
    /\ attempts = [r \in Rems |-> IF r \in store THEN 0 ELSE 1]
    /\ cr = IdleCr
    /\ cn = IdleCn
    /\ recs = <<[pc |-> "fetching", snap |-> {}]>>
    /\ failed = {}
    /\ cancelled = {}
    /\ interrupted = {}
    /\ returned = <<>>
    /\ world \in Worlds
    /\ stale = <<>>

NextFire ==
    \/ Tick
    \/ \E k \in DOMAIN recs : CreateFirstRemindersFetch(k)
    \/ \E k \in DOMAIN recs : CreateFirstRemindersArm(k)
    \/ \E x \in TaskSet : DoRemindResolveFail(x)
    \/ \E x \in TaskSet : DoWait(x)
    \/ \E x \in TaskSet : DoRemindSent(x)
    \/ \E x \in TaskSet : DoRemindSendFail(x)
    \/ \E x \in TaskSet : DoRemindDelete(x)
    \/ \E x \in TaskSet : DoRemindDeleteFail(x)

FireSpec == InitFire /\ [][NextFire]_vars

\* `remind remove` against the fire handlers: MaxCancels invocations in a
\* process that has started on a table of rows and has not run its start-up
\* routine yet. Every deadline is reached. A reminder has its row and the
\* sleeping timer a `remind` of this process gave it, or the row alone that
\* a `remind` of the process before left when it was cut short, or has been
\* sent and has neither.
InitRace ==
    /\ now = MaxClock
    /\ loaded = TRUE
    /\ events = MaxEvents - MaxCancels
    /\ nRem = MaxReminders
    /\ rem \in [Rems -> [id : AssignedIds, owner : Users, deadline : {MaxClock}]]
    /\ \A r, q \in Rems : r < q => rem[r].id <= rem[q].id
    /\ \A r \in Rems : \A v \in Users :
            v < rem[r].owner => \E q \in 1..(r - 1) : rem[q].owner = v
    /\ store \in SUBSET Rems
    /\ interrupted \in SUBSET store
    /\ tasks = SetToBag({NewTask(r) : r \in store \ interrupted})
    /\ attempts = [r \in Rems |-> IF r \in store THEN 0 ELSE 1]
    /\ cr = IdleCr
    /\ cn = IdleCn
    /\ recs = <<[pc |-> "fetching", snap |-> {}]>>
    /\ failed = {}
    /\ cancelled = {}
    /\ returned = <<>>
    /\ world = Plain
    /\ stale = <<>>

NextRace ==
    \/ \E o \in Callers, l \in ItemLists : RemindRemove(o, l)
    \/ RemindRemoveCancel
    \/ RemindRemoveDelete
    \/ \E x \in TaskSet : DoWait(x)
    \/ \E x \in TaskSet : DoRemindSent(x)
    \/ \E x \in TaskSet : DoRemindDelete(x)

RaceSpec == InitRace /\ [][NextRace]_vars

\* ------------------------------------------------------------ properties
\* ids with a row in the table, ids with an unfinished timer
StoredIds == {rem[r].id : r \in store}
TimerIds == {rem[x.rem].id : x \in TaskSet}

\* nothing is in progress: no command, no start-up routine, no fire handler
Quiescent ==
    /\ loaded
    /\ cr.pc = "idle"
    /\ cn.pc = "idle"
    /\ recs = <<>>
    /\ stale = <<>>
    /\ \A x \in TaskSet : x.pc = "sleeping"

\* C1: target.send is called at most once for every reminder, whatever
\* happens (restart and recover, a failed attempt).
C1_AtMostOneAttempt == \A r \in Rems : attempts[r] <= 1

\* C2: when target.send raises, the fire handler still deletes the row: after
\* the failed attempt the table holds no row of that reminder.
C2_FailedSendStillDeletes ==
    [][\A x \in TaskSet : DoRemindSendFail(x) => x.rem \notin store']_vars

\* a `remind remove` of r's owner that names r's id is running
OwnerCancels(r) ==
    /\ cn.pc # "idle"
    /\ cn.owner = rem[r].owner
    /\ \E i \in DOMAIN cn.items : cn.items[i] = rem[r].id

\* C3: a stored reminder that its owner does not cancel is eventually
\* delivered and its row eventually removed.
C3_EventuallyDelivered ==
    \A r \in Rems :
        (r \in store) ~> ((r \notin store /\ attempts[r] >= 1) \/ OwnerCancels(r))

\* C4: at every instant at most one unfinished REMINDER task exists per id.
C4_OneTimerPerId == \A x \in TaskSet : LiveCountId(rem[x.rem].id) <= 1

\* C5: in a quiescent state of a loaded cog the ids with a row are exactly
\* the ids with a timer.
C5_RecordIffTimer == Quiescent => StoredIds = TimerIds

\* the id the running `remind remove` is working on
Item == Head(cn.items)

\* C6: `remind remove` of an id leaves the timers and the rows of every other
\* id as they are.
C6_CancelFrame ==
    [][/\ (RemindRemoveCancel /\ cn.items # <<>>) =>
            \A x \in TaskSet :
                rem[x.rem].id # Item => CopiesIn(x, tasks') = CopiesIn(x, tasks)
       /\ RemindRemoveDelete =>
            \A r \in store : rem[r].id # Item => r \in store']_vars

\* C7: `remind remove` by a user who does not own the reminder of the id he
\* names leaves that reminder's timer and row as they are.
C7_NonOwnerCancelNoEffect ==
    [][/\ (RemindRemoveCancel /\ cn.items # <<>>) =>
            \A x \in TaskSet :
                (rem[x.rem].id = Item /\ rem[x.rem].owner # cn.owner)
                    => CopiesIn(x, tasks') = CopiesIn(x, tasks)
       /\ RemindRemoveDelete =>
            \A r \in store : rem[r].owner # cn.owner => r \in store']_vars

\* C8: once the owner has removed a reminder whose timer was pending, the
\* table holds no row of it, no timer of it is live and it is never sent.
C8_CancelledNeverFires ==
    \A r \in cancelled : r \notin store /\ LiveCount(r) = 0 /\ attempts[r] = 0

\* C9: a `remind` whose INSERT failed ended with the error and left no row
\* and no timer of its reminder, then and ever after.
C9_FailedCreateLeavesNothing ==
    \A r \in failed : r \notin store /\ LiveCount(r) = 0 /\ attempts[r] = 0

C9_Witness ==
    \E r \in failed : cr.pc = "idle" /\ \E q \in store : q # r /\ LiveCount(q) = 1

\* the start-up routine k arms its rows in a process in which nothing else
\* has run since the rows were read
RecoversAlone(k) ==
    /\ CreateFirstRemindersArm(k)
    /\ Len(recs) = 1
    /\ recs[k].snap = store
    /\ tasks = EmptyBag
    /\ cr.pc = "idle"
    /\ cn.pc = "idle"
    /\ stale = <<>>

\* the INSERT of the `remind` that made reminder r has not been executed
Inserting(r) ==
    \/ cr.pc = "inserting" /\ cr.r = r
    \/ \E k \in DOMAIN stale : stale[k].pc = "inserting" /\ stale[k].r = r

\* C10: while the INSERT of a `remind` has not been executed its reminder has
\* no timer; and when a crash cut a `remind` short, the start-up routine of
\* the next process leaves its reminder with no row and no timer, or with
\* its row and exactly one timer.
C10_PersistBeforeArm ==
    /\ [](\A r \in Rems :
            Inserting(r) => (LiveCount(r) = 0 /\ attempts[r] = 0))
    /\ [][\A k \in DOMAIN recs :
            RecoversAlone(k) =>
                \A r \in interrupted :
                    \/ r \notin store' /\ LiveCount(r)' = 0
                    \/ r \in store' /\ LiveCount(r)' = 1]_vars

C10_Witness ==
    \E r \in interrupted : loaded /\ recs = <<>> /\ r \in store /\ LiveCount(r) = 1

\* C12: a start-up routine that runs alone, on a table of N rows and with no
\* timer live, leaves exactly N timers, one for every row.
C12_RecoverArmsEach ==
    [][\A k \in DOMAIN recs :
            RecoversAlone(k) =>
                /\ \A r \in store' : LiveCount(r)' = 1
                /\ BagCardinality(tasks') = Cardinality(store')]_vars

C12_Witness ==
    /\ loaded /\ recs = <<>> /\ cr.pc = "idle" /\ MaxReminders \in interrupted
    /\ Cardinality(store) = MaxReminders
    /\ \A r \in store : LiveCount(r) = 1 /\ attempts[r] = 0

\* C14: the start-up routine arms every row it lists, also one whose
\* deadline has passed; a timer whose deadline has been reached can fire at
\* once, and no timer fires before its deadline.
C14_PastDeadlineArmedAndFires ==
    /\ [][\A k \in DOMAIN recs :
            CreateFirstRemindersArm(k) =>
                \A r \in recs[k].snap : LiveCount(r)' = LiveCount(r) + 1]_vars
    /\ [](\A x \in TaskSet :
            (x.pc = "sleeping" /\ rem[x.rem].deadline <= now) => ENABLED DoWait(x))
    /\ [][\A x \in TaskSet : DoWait(x) => rem[x.rem].deadline <= now]_vars

\* a reminder cut short by a crash, armed by the start-up routine after its
\* deadline, is being sent
C14_Witness ==
    \E x \in TaskSet :
        /\ x.rem \in interrupted /\ x.late
        /\ x.pc = "sending" /\ attempts[x.rem] = 1

\* C15: cog_unload leaves no REMINDER task live and leaves the table as it
\* was.
C15_UnloadCancelsAllKeepsRows ==
    [][CogUnload => (TimerIds' = {} /\ (\A r \in Rems : LiveCount(r)' = 0) /\ store' = store)]_vars

C15_Witness ==
    /\ ~loaded /\ tasks = EmptyBag
    /\ cr.pc = "replying" /\ cr.r \in store /\ attempts[cr.r] = 0

\* reminder r is pending: its row is in the table or a timer of it is live
Pending(r) == r \in store \/ LiveCount(r) > 0

\* C11: no two reminders that are pending at the same time have the same id.
C11_UniqueIds ==
    \A r, q \in 1..nRem :
        (r # q /\ Pending(r) /\ Pending(q)) => rem[r].id # rem[q].id

\* C13: no `remind` and no `remind remove` runs while a start-up routine has
\* not yet armed the rows it lists.
C13_RecoverBeforeRequests ==
    recs # <<>> => (cr.pc = "idle" /\ cn.pc = "idle")

\* the tasks of the bag b, whatever their `seen` mark
Unmarked(b) == Marked(b, FALSE)

\* C17: `remind remove` of an id that has neither a row nor a timer leaves
\* the table and every timer as they are.
C17_AbsentIdNoEffect ==
    [][(cn.pc # "idle" /\ cn.items # <<>>
            /\ Item \notin StoredIds /\ Item \notin TimerIds
            /\ (RemindRemoveCancel \/ RemindRemoveDelete))
        => (store' = store /\ Unmarked(tasks') = Unmarked(tasks))]_vars

\* C19: when the DELETE of `remind remove` fails, a reminder of the caller
\* that was pending under the id when the command reached it still has its
\* row and its timer.
C19_FailedDeleteLeavesPending ==
    [][RemindRemoveDeleteFail =>
            \A r \in cn.hit :
                (rem[r].id = Item /\ r \in store) => (r \in store' /\ LiveCount(r)' >= 1)]_vars

\* the running `remind remove` repeats the one that ended last, which ended
\* without an error
Repeats ==
    /\ cn.pc # "idle"
    /\ returned # <<>>
    /\ returned[Len(returned)].owner = cn.owner
    /\ returned[Len(returned)].args = cn.args
    /\ ~returned[Len(returned)].error

\* C16: a `remind remove` that repeats the one before it, with nothing else
\* running in between, changes neither the table nor the timers, and each of
\* its steps can be taken although no timer and no row is left for it.
C16_CancelIdempotent ==
    /\ [][Repeats => (store' = store /\ Unmarked(tasks') = Unmarked(tasks))]_vars
    /\ []((Repeats /\ cn.pc = "reacting") => ENABLED RemindRemoveCancel)
    /\ []((Repeats /\ cn.pc = "deleting") => ENABLED RemindRemoveDelete)

\* the second of two equal invocations is over, and the first one removed a
\* row and a timer
C16_Witness ==
    /\ Len(returned) = 2
    /\ returned[1].owner = returned[2].owner
    /\ returned[1].args = returned[2].args
    /\ \E r \in Rems :
            /\ attempts[r] = 0 /\ r \notin store /\ LiveCount(r) = 0
            /\ \E i \in DOMAIN returned[1].args : returned[1].args[i] = rem[r].id
            /\ returned[1].owner = rem[r].owner

\* C18: a `remind remove` that ends without an error returns the number of
\* reminders it removed for their owner: 1 for one pending id of the caller,
\* 0 for an id that was never assigned.
C18_ReturnsCount ==
    \A i \in DOMAIN returned :
        ~returned[i].error => returned[i].value = returned[i].cancelled

\* id i has reached GONE: a reminder with this id was sent or removed by its
\* owner, and the id has neither a row nor a timer
Gone(i) ==
    /\ \E r \in 1..nRem : rem[r].id = i /\ (attempts[r] >= 1 \/ r \in cancelled)
    /\ i \notin StoredIds
    /\ i \notin TimerIds

\* C20: an id that has reached GONE gets no row and no timer again.
C20_GoneStaysGone ==
    [][\A i \in CancelIds : Gone(i) => (i \notin StoredIds' /\ i \notin TimerIds')]_vars

\* C21: a step of _do_remind that raises (reading the user, the send, the
\* DELETE) ends the task it runs in and nothing else: every other task is
\* left as it was, the cog stays loaded and no command is touched, and a
\* timer that has reached its deadline can go on to its send.
C21_FireErrorEndsOneTask ==
    /\ [][\A x \in TaskSet :
            (DoRemindResolveFail(x) \/ DoRemindSendFail(x) \/ DoRemindDeleteFail(x)) =>
                /\ tasks' = tasks (-) One(x)
                /\ UNCHANGED <<loaded, events, nRem, cr, cn, recs, stale>>]_vars
    /\ [](\A x \in TaskSet :
            (x.pc = "sleeping" /\ x.user /\ rem[x.rem].deadline <= now)
                => ENABLED DoWait(x))

\* the task of one reminder has ended in an error, which left its row, and
\* the message of another one has been sent
C21_Witness ==
    \E r, q \in Rems :
        /\ r # q /\ recs = <<>>
        /\ r \in store /\ LiveCount(r) = 0
        /\ \E x \in TaskSet : x.rem = q /\ x.pc = "deleting" /\ attempts[q] = 1

\* C22: the start-up routine gives every row it read a timer, also the rows
\* that come after one whose owner get_user does not find.
C22_UnresolvedDoesNotStopOthers ==
    [][\A k \in DOMAIN recs :
            CreateFirstRemindersArm(k) =>
                \A r \in recs[k].snap :
                    (\E q \in recs[k].snap : q # r /\ rem[q].owner \notin world.cached)
                        => \E y \in BagToSet(tasks' (-) tasks) :
                                y.rem = r /\ y.pc = "sleeping"]_vars

\* the first row's owner was not found and the second row has its timer
C22_Witness ==
    /\ recs = <<>>
    /\ \E x, y \in TaskSet : x.rem < y.rem /\ ~x.user /\ y.user /\ y.pc = "sleeping"

\* the fire handler of reminder r is in progress
Firing(r) == \E x \in TaskSet : x.rem = r /\ x.pc \in {"sending", "deleting"}

\* C23: when the owner's `remind remove` of an id runs against the fire
\* handler of that id, the command's DELETE leaves the reminder with no row
\* and no timer, the DELETE of either side is executed whether the row is
\* still there or not, and target.send is called once at most.
C23_CancelAgainstFire ==
    /\ [][RemindRemoveDelete =>
            \A r \in Rems :
                (rem[r].owner = cn.owner /\ rem[r].id = Item /\ attempts[r] >= 1)
                    => (r \notin store' /\ LiveCount(r)' = 0 /\ ~Firing(r)')]_vars
    /\ [](\A x \in TaskSet : x.pc = "deleting" => ENABLED DoRemindDelete(x))
    /\ [](cn.pc = "deleting" => ENABLED RemindRemoveDelete)
    /\ [](\A r \in Rems : attempts[r] <= 1)

\* the first `remind remove` is at its DELETE, and it has cancelled the timer
\* of its caller's reminder after the send was called and before the
\* handler's DELETE
C23_Witness ==
    /\ returned = <<>> /\ cn.pc = "deleting"
    /\ \E r \in store :
            /\ rem[r].owner = cn.owner /\ rem[r].id = Item
            /\ r \notin interrupted
            /\ attempts[r] = 1 /\ LiveCount(r) = 0

\* C24: target.send is called for a reminder only by a live timer of it that
\* sleeps and whose deadline is reached; the tasks a `remind remove` cancels
\* are no tasks any more; and a row leaves the table only in the DELETE of a
\* command or of a live task that has sent.
C24_NoEarlyNoCancelledFire ==
    /\ [][\A r \in Rems :
            attempts'[r] # attempts[r] =>
                \E x \in TaskSet :
                    x.rem = r /\ x.pc = "sleeping" /\ rem[r].deadline <= now]_vars
    /\ [][(RemindRemoveCancel /\ cn.items # <<>>) =>
            \A x \in TaskSet : Cancels(x, Item) => x \notin BagToSet(tasks')]_vars
    /\ [][\A r \in store :
            r \notin store' =>
                \/ cn.pc = "deleting"
                \/ \E x \in TaskSet :
                        /\ x.pc = "deleting"
                        /\ r \in DeleteMatches(rem[x.rem].id, rem[x.rem].owner)]_vars

\* a reminder its owner removed before the deadline has not been sent when
\* the deadline is reached and nothing is in progress
C24_Witness ==
    \E r \in cancelled :
        /\ rem[r].deadline <= now /\ attempts[r] = 0 /\ LiveCount(r) = 0
        /\ r \notin store /\ Quiescent

\* C25: the task's DELETE comes after its send, and while a task is in its
\* send the row of its reminder stays in the table unless the DELETE of a
\* `remind remove` takes it.
C25_SendBeforeDelete ==
    [][/\ \A x \in TaskSet : DoRemindDelete(x) => attempts[x.rem] >= 1
       /\ \A x \in TaskSet :
            (x.pc = "sending" /\ x.rem \in store /\ x.rem \notin store')
                => RemindRemoveDelete]_vars

\* C26: the message goes to the owner when dm_reminders is set or when the
\* channel cannot be reached (it is gone, or it takes no message), and to
\* the channel otherwise.
C26_Destination ==
    \A x \in TaskSet :
        x.pc = "sending" =>
            Target(x.rem) =
                IF rem[x.rem].owner \in world.dm \/ world.channel # "open"
                THEN "user" ELSE "channel"

\* C27: the DELETE of `remind remove` leaves no row of its caller with the
\* id, whether a timer of the reminder was live or not.
C27_DeletesWithoutTimer ==
    [][RemindRemoveDelete =>
            \A r \in store' : ~(rem[r].owner = cn.owner /\ rem[r].id = Item)]_vars

\* a row that a `remind` cut short had left without a timer, and that nothing
\* but a `remind remove` of its owner could take, is gone
C27_Witness ==
    \E r \in interrupted :
        /\ r \notin store /\ attempts[r] = 0
        /\ \A q \in Rems \ {r} : rem[q].id # rem[r].id
        /\ cn.pc = "idle"
        /\ \E i \in DOMAIN returned :
                returned[i].owner = rem[r].owner /\ returned[i].args = <<rem[r].id>>

\* C28: when the owner's `remind remove` returns, no timer is live for a
\* reminder of his with one of the ids, also when the timer was made while
\* the command ran.
C28_NoTimerAfterCancel ==
    [][(RemindRemoveDelete /\ Tail(cn.items) = <<>>) =>
            \A x \in BagToSet(tasks') :
                ~(/\ rem[x.rem].owner = cn.owner
                  /\ \E i \in DOMAIN cn.args : cn.args[i] = rem[x.rem].id)]_vars

\* C29: a start-up routine makes timers only while its cog is loaded, and
\* only the routine of the cog that is loaded does.
C29_NoArmAfterUnload ==
    [][\A k \in DOMAIN recs :
            (CreateFirstRemindersArm(k) /\ recs[k].snap # {})
                => (loaded /\ k = Len(recs))]_vars

\* the `remind` invocations that are not over
InProgress == (IF cr.pc = "idle" THEN 0 ELSE 1) + Len(stale)

\* C30: one `remind` at most is in progress.
C30_OneCreateAtATime == InProgress <= 1

====
